---- MODULE Spec2Model ----
(***************************************************************************)
(* Model of server/main.py: the bearer-token gate, the Document API        *)
(* (upsert-file, upsert, query, sub/query, delete) in front of an opaque   *)
(* datastore, and the session-threaded OAuth bridge plus the               *)
(* authorization endpoint.                                                 *)
(*                                                                         *)
(* Every HTTP request is one atomic action: a handler runs sequentially    *)
(* and shares nothing with other requests but the session and the          *)
(* startup-time secrets.  The variables req / resp / dsLog / wixLog hold   *)
(* the request just served, its response and the collaborator calls made   *)
(* while serving it.                                                       *)
(*                                                                         *)
(* Python values:                                                          *)
(*   - an Optional value is a sequence of length 0 (None / key absent) or  *)
(*     1 (the value);                                                      *)
(*   - strings that are concatenated or searched (state, redirect_uri,     *)
(*     the issued code, urls, error details, exception texts) are          *)
(*     sequences of text fragments, so that + and f-strings are \o and     *)
(*     "contains" is a real substring test; other strings are TLA+ strings.*)
(***************************************************************************)
EXTENDS Integers, Sequences, FiniteSets, TLC

VARIABLES session, loginParams, req, resp, dsLog, wixLog

vars == <<session, loginParams, req, resp, dsLog, wixLog>>

---------------------------------------------------------------------------
(* Bounds of the model *)

MaxIds == 2
MaxDocs == 2

---------------------------------------------------------------------------
(* Python helpers *)

None == <<>>
Some(v) == <<v>>
IsSome(o) == Len(o) > 0
Val(o) == o[1]
Opt(S) == {None} \cup {Some(v) : v \in S}

SeqsUpTo(S, n) == UNION {[1..k -> S] : k \in 0..n}

\* "t in s" for strings
Contains(s, t) == \E i \in 0..(Len(s) - Len(t)) : SubSeq(s, i + 1, i + Len(t)) = t

\* str(x) inside an f-string: None prints as "None"
FormatOpt(o) == IF IsSome(o) THEN Val(o) ELSE <<"None">>

---------------------------------------------------------------------------
(* Static secrets, read from the environment *)

BEARER_TOKEN == "bearer-secret"
CLIENT_ID == "client-1"
CLIENT_SECRET == "client-secret"
OPENAI_CODE == <<"issued-code">>

---------------------------------------------------------------------------
(* Responses *)

NoBody == [kind |-> "none"]

\* what FastAPI's handler for HTTPException sends: {"detail": detail}
HTTPException(status_code, detail) ==
    [status |-> status_code, detail |-> detail, body |-> NoBody]

\* an exception no handler catches: Starlette's ServerErrorMiddleware
Unhandled ==
    [status |-> 500, detail |-> <<>>,
     body |-> [kind |-> "text", text |-> <<"Internal Server Error">>]]

Ok(body) == [status |-> 200, detail |-> <<>>, body |-> body]

InternalServiceError == <<"Internal Service Error">>

---------------------------------------------------------------------------
(* Token gate *)

Schemes == {"Bearer", "bearer", "Basic"}
Credentials == {BEARER_TOKEN, "wrong-token", ""}

\* the Authorization header, split at its first space into scheme and
\* credentials; None when the header is missing
AuthHeaders == Opt([scheme : Schemes, credentials : Credentials])

\* The status HTTPBearer(auto_error=True) itself answers with when the
\* header is missing or its scheme is not bearer: 403 in the FastAPI
\* releases of this program's time, 401 in later ones.  The source pins no
\* release, so both are outcomes a build can produce.
HTTPBearerRejectStatus == {403, 401}

\* fastapi.security.HTTPBearer.__call__
bearer_scheme(authorization, rejectStatus) ==
    IF ~IsSome(authorization)
       \/ Val(authorization).scheme = ""
       \/ Val(authorization).credentials = ""
    THEN [ok |-> FALSE, resp |-> HTTPException(rejectStatus, <<"Not authenticated">>)]
    ELSE IF Val(authorization).scheme \notin {"Bearer", "bearer"}
    THEN [ok |-> FALSE,
          resp |-> HTTPException(rejectStatus, <<"Invalid authentication credentials">>)]
    ELSE [ok |-> TRUE, resp |-> Ok(NoBody)]

validate_token(authorization, rejectStatus) ==
    LET scheme == bearer_scheme(authorization, rejectStatus) IN
    IF ~scheme.ok THEN scheme
    ELSE IF Val(authorization).scheme # "Bearer"
            \/ Val(authorization).credentials # BEARER_TOKEN
    THEN [ok |-> FALSE, resp |-> HTTPException(401, <<"Invalid or missing token">>)]
    ELSE [ok |-> TRUE, resp |-> Ok(NoBody)]

\* the dependency's outcomes for one header, over the releases of HTTPBearer
GateOutcomes(authorization) ==
    {validate_token(authorization, s) : s \in HTTPBearerRejectStatus}

---------------------------------------------------------------------------
(* The datastore: an opaque collaborator.  A call returns or raises; what  *)
(* it returns and the text of what it raises are free.                     *)

ExcTexts == {<<"connection refused">>, <<"index ", "docs", " not found">>}
DocIds == {"a", "b"}
IdLists == SeqsUpTo(DocIds, MaxIds)
Filters == {"by-source"}
Texts == {"t1"}
UpsertResults == {<<"a">>, <<"a", "b">>}
Sources == {"file", "email"}
Documents == [text : Texts, source : Sources]
DocumentLists == SeqsUpTo(Documents, MaxDocs) \ {<<>>}
Queries == {<<"q1">>, <<"q1", "q2">>}
QueryResults == {<<>>, <<"r1">>}

\* the outcomes of one datastore call: it returns one of `values`, or raises
DsOutcomes(values, dflt) ==
    {[raised |-> FALSE, value |-> v, exc |-> <<>>] : v \in values}
    \cup {[raised |-> TRUE, value |-> dflt, exc |-> e] : e \in ExcTexts}

DsCall(op, args, outcome) ==
    [op |-> op, args |-> args, raised |-> outcome.raised, exc |-> outcome.exc]

---------------------------------------------------------------------------
(* The OAuth session (starlette SessionMiddleware): a dict, empty at first *)

SessionKeys ==
    {"response_type", "client_id", "scope", "state", "redirect_uri",
     "wix_callback_url", "code_verifier"}
OAuthParamKeys == {"response_type", "client_id", "scope", "state", "redirect_uri"}

EmptySession == [k \in SessionKeys |-> None]

\* dict.get(key): None when the key is absent
Get(d, k) == d[k]

Init ==
    /\ session = EmptySession
    /\ loginParams = None
    /\ req = [route |-> "none"]
    /\ resp = [status |-> 0, detail |-> <<>>, body |-> NoBody]
    /\ dsLog = <<>>
    /\ wixLog = <<>>

\* a Document API request: the session is not involved
Serve(request, response, calls) ==
    /\ req' = request
    /\ resp' = response
    /\ dsLog' = calls
    /\ wixLog' = <<>>
    /\ UNCHANGED <<session, loginParams>>

---------------------------------------------------------------------------
(* Document API *)

MetadataStrings == {"", "{\"source\": \"email\"}", "not json"}

\* DocumentMetadata.parse_raw: raises on malformed input
ParseRaw(metadata) ==
    IF metadata = "{\"source\": \"email\"}"
    THEN [raised |-> FALSE, source |-> "email"]
    ELSE [raised |-> TRUE, source |-> "file"]

\* the metadata_obj of upsert_file: parse when a non-empty string is given,
\* DocumentMetadata(source=Source.file) otherwise or when parsing raises
MetadataObj(metadata) ==
    IF IsSome(metadata) /\ Val(metadata) # ""
    THEN (IF ParseRaw(Val(metadata)).raised THEN "file" ELSE ParseRaw(Val(metadata)).source)
    ELSE "file"

UpsertFileErrorDetail(e) == <<"str(">> \o e \o <<")">>

upsert_file ==
    \E authorization \in AuthHeaders, file \in Texts, metadata \in Opt(MetadataStrings) :
      \E gate \in GateOutcomes(authorization) :
        LET request == [route |-> "upsert-file", authorization |-> authorization,
                        file |-> file, metadata |-> metadata]
            document == [text |-> file, source |-> MetadataObj(metadata)]
        IN  IF ~gate.ok THEN Serve(request, gate.resp, <<>>)
            ELSE \/ \* get_document_from_file raises, outside any try
                    Serve(request, Unhandled, <<>>)
                 \/ \E outcome \in DsOutcomes(UpsertResults, <<>>) :
                      LET call == DsCall("upsert", <<document>>, outcome) IN
                      IF outcome.raised
                      THEN Serve(request,
                                 HTTPException(500, UpsertFileErrorDetail(outcome.exc)),
                                 <<call>>)
                      ELSE Serve(request, Ok([kind |-> "upsert", ids |-> outcome.value]),
                                 <<call>>)

upsert ==
    \E authorization \in AuthHeaders, documents \in DocumentLists :
      \E gate \in GateOutcomes(authorization) :
        LET request == [route |-> "upsert", authorization |-> authorization,
                        documents |-> documents]
        IN  IF ~gate.ok THEN Serve(request, gate.resp, <<>>)
            ELSE \E outcome \in DsOutcomes(UpsertResults, <<>>) :
                   LET call == DsCall("upsert", documents, outcome) IN
                   IF outcome.raised
                   THEN Serve(request, HTTPException(500, InternalServiceError), <<call>>)
                   ELSE Serve(request, Ok([kind |-> "upsert", ids |-> outcome.value]),
                              <<call>>)

QueryHandler(route) ==
    \E authorization \in AuthHeaders, queries \in Queries :
      \E gate \in GateOutcomes(authorization) :
        LET request == [route |-> route, authorization |-> authorization,
                        queries |-> queries]
        IN  IF ~gate.ok THEN Serve(request, gate.resp, <<>>)
            ELSE \E outcome \in DsOutcomes(QueryResults, <<>>) :
                   LET call == DsCall("query", queries, outcome) IN
                   IF outcome.raised
                   THEN Serve(request, HTTPException(500, InternalServiceError), <<call>>)
                   ELSE Serve(request, Ok([kind |-> "query", results |-> outcome.value]),
                              <<call>>)

query_main == QueryHandler("query")

query == QueryHandler("sub/query")

\* a parsed DeleteRequest: each field is None when the body leaves it out
DeleteRequests == [ids : Opt(IdLists), filter : Opt(Filters), delete_all : Opt(BOOLEAN)]

\* mutant: the validation is left out
DeleteCriteriaGiven_Unchecked(request) == TRUE

\* Python truth of request.ids or request.filter or request.delete_all
DeleteCriteriaGiven(request) ==
    \/ (IsSome(request.ids) /\ Len(Val(request.ids)) > 0)
    \/ IsSome(request.filter)
    \/ (IsSome(request.delete_all) /\ Val(request.delete_all))

\* mutant: the filter is not forwarded
DeleteArgs_DropsFilter(request) ==
    [ids |-> request.ids, filter |-> None, delete_all |-> request.delete_all]

DeleteArgs(request) ==
    [ids |-> request.ids, filter |-> request.filter, delete_all |-> request.delete_all]

delete ==
    \E authorization \in AuthHeaders, request \in DeleteRequests :
      \E gate \in GateOutcomes(authorization) :
        LET r == [route |-> "delete", authorization |-> authorization,
                  body |-> request]
        IN  IF ~gate.ok THEN Serve(r, gate.resp, <<>>)
            ELSE IF ~DeleteCriteriaGiven(request)
            THEN Serve(r, HTTPException(400,
                          <<"One of ids, filter, or delete_all is required">>), <<>>)
            ELSE \E outcome \in DsOutcomes(BOOLEAN, FALSE) :
                   LET call == DsCall("delete", DeleteArgs(request), outcome) IN
                   IF outcome.raised
                   THEN Serve(r, HTTPException(500, InternalServiceError), <<call>>)
                   ELSE Serve(r, Ok([kind |-> "delete", success |-> outcome.value]),
                              <<call>>)

---------------------------------------------------------------------------
(* OAuth bridge *)

ResponseTypes == {"code", "token"}
ClientIds == {CLIENT_ID, "other-client"}
ClientSecrets == {CLIENT_SECRET, "other-secret"}
Scopes == {"read", "write"}
States == {<<"x">>, <<"y">>}
RedirectUris == {<<"https://a.example/cb">>, <<"https://b.example/cb">>}
Codes == {OPENAI_CODE, <<"other-code">>, <<>>}
WixCodes == {"wix-code"}
WixCallbackUrls == {"https://wix.example/1", "https://wix.example/2"}
CodeVerifiers == {"verifier"}
Usernames == {"user"}
Passwords == {"pw"}
Tiers == {"Elite", "Basic", "elite"}

\* the query string of GET /login/: a parameter left out is None
LoginQueries ==
    [response_type : Opt(ResponseTypes), client_id : Opt(ClientIds),
     scope : Opt(Scopes), state : Opt(States), redirect_uri : Opt(RedirectUris)]

\* every parameter is Query(...): required
get_oauth_params(given) ==
    IF \E k \in OAuthParamKeys : ~IsSome(given[k])
    THEN [raised |-> TRUE, params |-> given]
    ELSE [raised |-> FALSE, params |-> given]

RequestValidationError ==
    [status |-> 422, detail |-> <<"field required">>, body |-> NoBody]

\* dict.update(other)
Update(d, other) == [k \in DOMAIN d |-> IF k \in DOMAIN other THEN other[k] ELSE d[k]]

\* d[key] = value
SetItem(d, key, value) == [d EXCEPT ![key] = Some(value)]

\* an OAuth request: no datastore is involved
ServeOAuth(request, response, newSession, calls) ==
    /\ req' = request
    /\ resp' = response
    /\ session' = newSession
    /\ wixLog' = calls
    /\ dsLog' = <<>>

Template(name, context) ==
    Ok([kind |-> "template", name |-> name, context |-> context])

login ==
    \E given \in LoginQueries :
        LET request == [route |-> "login", method |-> "GET", query |-> given]
            oauth_params == get_oauth_params(given)
        IN  IF oauth_params.raised
            THEN /\ ServeOAuth(request, RequestValidationError, session, <<>>)
                 /\ UNCHANGED loginParams
            ELSE /\ ServeOAuth(request, Template("login.html", None),
                               Update(session, oauth_params.params), <<>>)
                 /\ loginParams' = Some(oauth_params.params)

\* the outcomes of wix_get_callback_url
WixCallbackOutcomes ==
    {[raised |-> FALSE, wix_callback_url |-> u, code_verifier |-> v] :
        u \in WixCallbackUrls, v \in CodeVerifiers}
    \cup {[raised |-> TRUE, wix_callback_url |-> "", code_verifier |-> ""]}

\* mutant: the upstream's state is stored over the captured one
SessionAfterLoginPost_ClobbersState(s, outcome) ==
    SetItem(SetItem(SetItem(s, "wix_callback_url", outcome.wix_callback_url),
                    "code_verifier", outcome.code_verifier),
            "state", <<"wix-state">>)

\* the session as POST /login/ leaves it when the upstream call returns
SessionAfterLoginPost(s, outcome) ==
    SetItem(SetItem(s, "wix_callback_url", outcome.wix_callback_url),
            "code_verifier", outcome.code_verifier)

login_post ==
    \E username \in Usernames, password \in Passwords, outcome \in WixCallbackOutcomes :
        LET request == [route |-> "login", method |-> "POST",
                        username |-> username, password |-> password]
            state == Get(session, "state")
            call == [fn |-> "wix_get_callback_url", state |-> state,
                     raised |-> outcome.raised]
        IN  /\ UNCHANGED loginParams
            /\ IF outcome.raised
               THEN ServeOAuth(request, Unhandled, session, <<call>>)
               ELSE ServeOAuth(request,
                      [status |-> 303, detail |-> <<"See Other">>,
                       body |-> [kind |-> "redirect", location |-> <<"../callback/">>]],
                      SessionAfterLoginPost(session, outcome),
                      <<call>>)

callback ==
    LET request == [route |-> "callback", method |-> "GET"]
        wix_callback_url == Get(session, "wix_callback_url")
    IN  /\ ServeOAuth(request, Template("callback.html", wix_callback_url), session, <<>>)
        /\ UNCHANGED loginParams

SubscriptionRequests == [code : WixCodes, state : States]

\* redirect_uri + f"?state={state}&code={openai_code}", redirect_uri a str
SubscriptionUrl(redirect_uri, state, openai_code) ==
    redirect_uri \o <<"?state=">> \o FormatOpt(state) \o <<"&code=">> \o openai_code

EliteMessage == <<"You are an Elite member.">>
NonEliteMessage == <<"You are not an Elite member.">>
FallbackUrl == <<"https://www.kaiwu.info">>

\* the outcomes of get_member_access_token
TokenOutcomes == {[raised |-> FALSE], [raised |-> TRUE]}

\* the outcomes of wix_get_subscription
SubscriptionOutcomes ==
    {[raised |-> FALSE, tier |-> t] : t \in Tiers} \cup {[raised |-> TRUE, tier |-> ""]}

\* None + str raises TypeError
UrlRaises(redirect_uri) == ~IsSome(redirect_uri)

\* mutant: session_data.get("code_verifier"), which never raises
VerifierRaises_Get(s) == FALSE

\* session_data["code_verifier"] raises KeyError when the key is absent
VerifierRaises(s) == ~IsSome(s["code_verifier"])

\* mutant: the tier is compared without regard to case
SubscriptionResponse_AnyCase(tier, url) ==
    IF tier \in {"Elite", "elite"}
    THEN Ok([kind |-> "subscription", message |-> EliteMessage, url |-> url])
    ELSE Ok([kind |-> "subscription", message |-> NonEliteMessage, url |-> FallbackUrl])

SubscriptionResponse(tier, url) ==
    IF tier = "Elite"
    THEN Ok([kind |-> "subscription", message |-> EliteMessage, url |-> url])
    ELSE Ok([kind |-> "subscription", message |-> NonEliteMessage, url |-> FallbackUrl])

\* mutant: the state of the request body is used
SubscriptionState_FromBody(s, request) == Some(request.state)

\* the state put into the url: the session's, not the request body's
SubscriptionState(s, request) == Get(s, "state")

\* mutant: the session is cleared once the exchange has answered
SessionAfterSubscription_Cleared(s) == EmptySession

\* the session as POST /callback/ leaves it
SessionAfterSubscription(s) == s

subscription ==
    \E request \in SubscriptionRequests :
        LET r == [route |-> "callback", method |-> "POST", body |-> request]
            state == SubscriptionState(session, request)
            redirect_uri == Get(session, "redirect_uri")
            after == SessionAfterSubscription(session)
        IN  /\ UNCHANGED loginParams
            /\ IF UrlRaises(redirect_uri) \/ VerifierRaises(session)
               THEN ServeOAuth(r, Unhandled, session, <<>>)
               ELSE LET url == SubscriptionUrl(Val(redirect_uri), state, OPENAI_CODE) IN
                    \E token \in TokenOutcomes :
                       LET call1 == [fn |-> "get_member_access_token",
                                     raised |-> token.raised, tier |-> ""]
                       IN  IF token.raised
                           THEN ServeOAuth(r, Unhandled, session, <<call1>>)
                           ELSE \E sub \in SubscriptionOutcomes :
                                  LET call2 == [fn |-> "wix_get_subscription",
                                                raised |-> sub.raised, tier |-> sub.tier]
                                  IN  IF sub.raised
                                      THEN ServeOAuth(r, Unhandled, session, <<call1, call2>>)
                                      ELSE ServeOAuth(r, SubscriptionResponse(sub.tier, url),
                                                      after, <<call1, call2>>)

AuthorizationForms == [client_id : ClientIds, client_secret : ClientSecrets, code : Codes]

\* mutant: the code field is not compared
CredentialsMismatch_IgnoresCode(form) ==
    \/ form.client_id # CLIENT_ID
    \/ form.client_secret # CLIENT_SECRET

CredentialsMismatch(form) ==
    \/ form.client_id # CLIENT_ID
    \/ form.client_secret # CLIENT_SECRET
    \/ form.code # OPENAI_CODE

authorization ==
    \E form \in AuthorizationForms :
        LET request == [route |-> "authorization", method |-> "POST", form |-> form]
        IN  /\ UNCHANGED loginParams
            /\ IF CredentialsMismatch(form)
               THEN ServeOAuth(request, HTTPException(401, <<"Invalid or missing token">>),
                               session, <<>>)
               ELSE ServeOAuth(request,
                               Ok([kind |-> "token", access_token |-> BEARER_TOKEN,
                                   token_type |-> "bearer"]),
                               session, <<>>)

\* The two applications share nothing but the startup-time secrets (the
\* Document API never touches the session, the bridge never calls the
\* datastore), so each is checked as a specification of its own.
NextOAuth == login \/ login_post \/ callback \/ subscription \/ authorization

SpecOAuth == Init /\ [][NextOAuth]_vars

NextApi == upsert_file \/ upsert \/ query_main \/ query \/ delete

SpecApi == Init /\ [][NextApi]_vars

---------------------------------------------------------------------------
(* Properties *)

GatedRoutes == {"upsert-file", "upsert", "query", "sub/query", "delete"}

\* the request carries "Authorization: Bearer <BEARER_TOKEN>"
ValidBearer(header) ==
    /\ IsSome(header)
    /\ Val(header).scheme = "Bearer"
    /\ Val(header).credentials = BEARER_TOKEN

Gated == req.route \in GatedRoutes

\* C1: every request to a gated route without a valid bearer token (header
\* missing, scheme other than Bearer, or another token) is answered 401 and
\* makes no datastore call.
C1_Unauthenticated401 ==
    (Gated /\ ~ValidBearer(req.authorization))
        => (resp.status = 401 /\ dsLog = <<>>)

IsAuthorization == req.route = "authorization"

AllThreeMatch(form) ==
    /\ form.client_id = CLIENT_ID
    /\ form.client_secret = CLIENT_SECRET
    /\ form.code = OPENAI_CODE

TokenGranted ==
    /\ resp.status = 200
    /\ resp.body = [kind |-> "token", access_token |-> BEARER_TOKEN, token_type |-> "bearer"]

\* C2: POST /oauth/authorization/ answers 200 with the configured bearer
\* token and token_type "bearer" exactly when client_id, client_secret and
\* code all equal their configured values; otherwise it answers 401 and
\* returns no access token.
C2_AuthorizationIff ==
    IsAuthorization =>
        /\ (AllThreeMatch(req.form) <=> TokenGranted)
        /\ (~AllThreeMatch(req.form) => (resp.status = 401 /\ resp.body.kind # "token"))

\* a partial match (only the code differs) is refused
C2_Witness ==
    /\ IsAuthorization
    /\ req.form.client_id = CLIENT_ID
    /\ req.form.client_secret = CLIENT_SECRET
    /\ req.form.code # OPENAI_CODE
    /\ resp.status = 401

IsDelete == req.route = "delete" /\ ValidBearer(req.authorization)

DeleteCalledOnceWithRequest ==
    /\ Len(dsLog) = 1
    /\ dsLog[1].op = "delete"
    /\ dsLog[1].args.ids = req.body.ids
    /\ dsLog[1].args.filter = req.body.filter
    /\ dsLog[1].args.delete_all = req.body.delete_all

\* C3 (as claimed): an authenticated DELETE /delete whose body holds at
\* least one of ids, filter, delete_all calls the datastore's delete exactly
\* once, with exactly the request's ids, filter and delete_all.
C3_PresentDeleteCallsOnce ==
    (IsDelete /\ (IsSome(req.body.ids) \/ IsSome(req.body.filter)
                  \/ IsSome(req.body.delete_all)))
        => DeleteCalledOnceWithRequest

\* C3 (amended): an authenticated DELETE /delete whose body holds a
\* non-empty ids list, a filter, or delete_all = true calls the datastore's
\* delete exactly once, with exactly the request's ids, filter and
\* delete_all; a body whose only criteria are an empty ids list or
\* delete_all = false is answered 400 without a datastore call.
C3_TruthyDeleteCallsOnce ==
    IsDelete =>
        IF \/ (IsSome(req.body.ids) /\ Val(req.body.ids) # <<>>)
           \/ IsSome(req.body.filter)
           \/ req.body.delete_all = Some(TRUE)
        THEN DeleteCalledOnceWithRequest
        ELSE resp.status = 400 /\ dsLog = <<>>

\* only a filter is given, and the datastore is called with it
C3_Witness ==
    /\ IsDelete
    /\ req.body.ids = None
    /\ IsSome(req.body.filter)
    /\ req.body.delete_all = None
    /\ Len(dsLog) = 1

\* C4: an authenticated DELETE /delete with ids, filter and delete_all all
\* absent is answered 400 and the datastore's delete is never called.
C4_EmptyDelete400 ==
    (IsDelete /\ req.body.ids = None /\ req.body.filter = None
              /\ req.body.delete_all = None)
        => (resp.status = 400 /\ dsLog = <<>>)

C4_Witness ==
    /\ IsDelete
    /\ req.body = [ids |-> None, filter |-> None, delete_all |-> None]
    /\ resp.status = 400

IsSubscription == req.route = "callback" /\ req.method = "POST"

\* the tier the upstream returned while this request was served
TierObtained(t) ==
    /\ Len(wixLog) = 2
    /\ ~wixLog[2].raised
    /\ wixLog[2].tier = t

UpstreamRaised == \E i \in 1..Len(wixLog) : wixLog[i].raised

\* C5: after any sequence of bridge steps ending in a POST /oauth/callback/
\* whose upstream tier is "Elite", the url of the response carries, as its
\* state parameter, the state captured by the latest GET /oauth/login/ of
\* the session, unchanged.
C5_StateEchoed ==
    (IsSubscription /\ TierObtained("Elite"))
        => /\ IsSome(loginParams)
           /\ resp.status = 200
           /\ Contains(resp.body.url,
                       <<"?state=">> \o Val(Val(loginParams).state) \o <<"&code=">>)

\* an Elite exchange whose body carries another state than the captured one
C5_Witness ==
    /\ IsSubscription
    /\ TierObtained("Elite")
    /\ IsSome(loginParams)
    /\ Some(req.body.state) # Val(loginParams).state

\* C6: when the datastore call of a Document API operation raises, the
\* response is a 500 whose detail is the fixed generic message, and the
\* text of the exception is not in the response.
C6_GenericDetail ==
    (Gated /\ dsLog # <<>> /\ dsLog[1].raised)
        => /\ resp.status = 500
           /\ resp.detail = InternalServiceError
           /\ ~Contains(resp.detail, dsLog[1].exc)

\* the text `t` occurs in a POST /callback/ response
Carries(t) ==
    \/ Contains(resp.detail, t)
    \/ (resp.body.kind = "subscription"
        /\ (Contains(resp.body.url, t) \/ Contains(resp.body.message, t)))
    \/ (resp.body.kind = "text" /\ Contains(resp.body.text, t))

\* C7: a POST /oauth/callback/ response contains the issued code only when
\* the tier obtained in that request is "Elite"; for any other tier it is
\* the fallback url with the non-elite message and contains neither the
\* issued code nor the stored redirect_uri; when an upstream call raises,
\* no response carrying the issued code is produced.
C7_CodeOnlyForElite ==
    IsSubscription =>
        /\ (Carries(OPENAI_CODE) => TierObtained("Elite"))
        /\ ((\E t \in Tiers \ {"Elite"} : TierObtained(t)) =>
               /\ resp.status = 200
               /\ resp.body = [kind |-> "subscription", message |-> NonEliteMessage,
                               url |-> FallbackUrl]
               /\ ~Carries(OPENAI_CODE)
               /\ ~Carries(Val(session["redirect_uri"])))
        /\ (UpstreamRaised => (resp.status = 500 /\ ~Carries(OPENAI_CODE)))

\* a tier that differs from "Elite" only in case gets the fallback
C7_Witness ==
    /\ IsSubscription
    /\ TierObtained("elite")
    /\ resp.body.url = FallbackUrl

ParamsOf(s) == [k \in OAuthParamKeys |-> s[k]]
Captured(s) == \A k \in OAuthParamKeys : IsSome(s[k])

\* C8 (as claimed): once GET /oauth/login/ has captured the five parameters
\* into the session, no later bridge operation (GET login, POST login, GET
\* callback, POST callback) changes them.
C8_ParamsNeverChange ==
    [][Captured(session) => ParamsOf(session') = ParamsOf(session)]_vars

\* C8 (amended): once captured, the five parameters are not changed by POST
\* login, GET callback, POST callback or a rejected GET login; a later
\* accepted GET login replaces them by its own five parameters.
C8_ParamsChangeOnlyByLogin ==
    [][Captured(session) =>
         IF req'.route = "login" /\ req'.method = "GET" /\ resp'.status = 200
         THEN ParamsOf(session') = req'.query
         ELSE ParamsOf(session') = ParamsOf(session)]_vars

\* the captured parameters are still there after login, POST login and an
\* answered POST callback
C8_Witness ==
    /\ IsSubscription
    /\ resp.status = 200
    /\ IsSome(loginParams)
    /\ ParamsOf(session) = Val(loginParams)

\* C9: POST /oauth/callback/ on a session without code_verifier or without
\* state fails with an error and returns neither the Elite nor the
\* non-elite response.
C9_MissingDataFails ==
    [][(req'.route = "callback" /\ req'.method = "POST"
        /\ (~IsSome(session["code_verifier"]) \/ ~IsSome(session["state"])))
        => (resp'.status = 500 /\ resp'.body.kind # "subscription")]_vars

\* POST login was run without GET login: a verifier but no state
C9_Witness ==
    /\ IsSubscription
    /\ IsSome(session["code_verifier"])
    /\ ~IsSome(session["state"])
    /\ resp.status = 500

\* C10 (as claimed): once a POST /oauth/callback/ exchange has returned its
\* response, the session no longer holds the captured parameters or the
\* upstream callback url and code verifier.
C10_SessionDestroyed ==
    (IsSubscription /\ resp.status = 200) => session = EmptySession

\* C10 (amended): the session starts empty and is first written by GET
\* /oauth/login/ (or POST login), and POST /oauth/callback/ leaves every key
\* of it as it was: the captured parameters, the upstream callback url and
\* the code verifier stay available to a later POST /oauth/callback/.
C10_SessionKept ==
    [][(req'.route = "callback" /\ req'.method = "POST") => session' = session]_vars

\* an answered exchange has left the session populated
C10_Witness ==
    /\ IsSubscription
    /\ resp.status = 200
    /\ Captured(session)
    /\ IsSome(session["code_verifier"])
    /\ IsSome(session["wix_callback_url"])

====
